---- MODULE Spec2Model ----
(***************************************************************************)
(* fastbfi: a Brainfuck byte-code compiler (src/src/compiler.rs), its      *)
(* lexer (src/src/lex.rs), the tail-calling interpreter                    *)
(* (src/src/interpreter.rs) and the driver `interpret` (src/src/main.rs).  *)
(*                                                                         *)
(* One behaviour of the model is one call of `interpret` on one program    *)
(* text: the compilation pass, one token per step, and then, when the      *)
(* pass succeeded, the run of the byte code, one instruction handler per   *)
(* step.                                                                   *)
(***************************************************************************)
EXTENDS Integers, Sequences, FiniteSets, TLC

\* ------------------------------------------------------------------ bounds
\* Longest program text, in bytes.
MaxLen == 4
\* Largest data pointer a pointer-right step is explored from.
MaxPtr == 4
\* Most calls of the output capability explored in one run.
MaxOut == 4
\* Longest input stream, in bytes.
MaxIn == 2
\* Width of usize in the model.  The target's usize has 64 bits, which the
\* model checker's integers cannot hold; only the wrap at 0 and at the
\* largest value matters, and the model keeps both.
UsizeBits == 16

\* ------------------------------------------------------- program constants
\* compiler.rs:9  ADDR_SIZE = size_of::<u32>()
ADDR_SIZE == 4
\* compiler.rs:110  the placeholder byte of an unpatched `[`
Garbage == 42

UsizeMod == 2 ^ UsizeBits
UsizeMax == UsizeMod - 1
ByteMod == 256

\* The bytes a program text is made of: the eight commands and "x", which
\* stands for every other byte.
Chars == {">", "<", "+", "-", ".", ",", "[", "]", "x"}

\* The bytes the input capability may hand to the program.
InputBytes == {0, 65, 66}

Builds == {"debug", "release"}

\* --------------------------------------------------------------- lex.rs
\* Lexer::next on one byte (lex.rs:53-67).
LexToken(c) ==
    CASE c = "<" -> "LAngle"
      [] c = ">" -> "RAngle"
      [] c = "+" -> "Plus"
      [] c = "-" -> "Minus"
      [] c = "." -> "Dot"
      [] c = "," -> "Comma"
      [] c = "[" -> "LBrack"
      [] c = "]" -> "RBrack"
      [] OTHER -> "Comment"

\* Lexer::next (lex.rs:50-68): the token of the next byte of the iterator,
\* Eof when the iterator is exhausted.
LexerNext(src) == IF src = <<>> THEN "Eof" ELSE LexToken(Head(src))

\* ----------------------------------------------------------- compiler.rs
Insts == {"IncPtr", "DecPtr", "Inc", "Dec", "Out", "Inp", "Jz", "Jnz", "Halt"}

\* Inst::to_bc (compiler.rs:180-182): the discriminant of the enum
\* (compiler.rs:21-78) as a byte.
to_bc(i) ==
    CASE i = "IncPtr" -> 0
      [] i = "DecPtr" -> 1
      [] i = "Inc" -> 2
      [] i = "Dec" -> 3
      [] i = "Out" -> 4
      [] i = "Inp" -> 5
      [] i = "Jz" -> 6
      [] i = "Jnz" -> 7
      [] i = "Halt" -> 8

from_bc_Swapped(x) ==
    CASE x = 0 -> "IncPtr"
      [] x = 1 -> "DecPtr"
      [] x = 2 -> "Dec"
      [] x = 3 -> "Inc"
      [] x = 4 -> "Out"
      [] x = 5 -> "Inp"
      [] x = 6 -> "Jz"
      [] x = 7 -> "Jnz"
      [] x = 8 -> "Halt"
      [] x = 9 -> "Halt"
      [] OTHER -> "None"

\* Inst::from_bc (compiler.rs:189-216).
from_bc(x) ==
    CASE x = 0 -> "IncPtr"
      [] x = 1 -> "DecPtr"
      [] x = 2 -> "Inc"
      [] x = 3 -> "Dec"
      [] x = 4 -> "Out"
      [] x = 5 -> "Inp"
      [] x = 6 -> "Jz"
      [] x = 7 -> "Jnz"
      [] x = 8 -> "Halt"
      [] OTHER -> "None"

\* Addr::try_from(usize) (compiler.rs:128, 134): succeeds when the value
\* fits ADDR_SIZE bytes.
AddrFits(n) == (n \div (ByteMod ^ (ADDR_SIZE - 1))) \div ByteMod = 0

\* Addr::to_le_bytes (compiler.rs:128, 134): least significant byte first.
to_le_bytes(n) ==
    [k \in 1..ADDR_SIZE |-> (n \div (ByteMod ^ (k - 1))) % ByteMod]

RECURSIVE LeValue(_)
LeValue(bs) ==
    IF bs = <<>> THEN 0 ELSE Head(bs) + ByteMod * LeValue(Tail(bs))

\* Addr::from_le_bytes(bc[i..][1..][..ADDR_SIZE]) (interpreter.rs:140-141,
\* 159-160): the address stored after the opcode at 0-based offset i.
from_le_bytes(bc, i) == LeValue(SubSeq(bc, i + 2, i + 1 + ADDR_SIZE))

\* The opcode a simple token records (compiler.rs:94-101).
SimpleInst(t) ==
    CASE t = "RAngle" -> "IncPtr"
      [] t = "LAngle" -> "DecPtr"
      [] t = "Plus" -> "Inc"
      [] t = "Minus" -> "Dec"
      [] t = "Dot" -> "Out"
      [] t = "Comma" -> "Inp"

SimpleTokens == {"RAngle", "LAngle", "Plus", "Minus", "Dot", "Comma"}

\* The result of one arm of compile's match: the buffer, the jump stack and
\* how the loop goes on ("continue", or the value it breaks with).
Arm(vv, js, brk, site) ==
    [v |-> vv, jump_stack |-> js, brk |-> brk, site |-> site]

SimpleArm_Swapped(vv, js, t) ==
    Arm(Append(vv, to_bc(SimpleInst(IF t = "Plus" THEN "Minus" ELSE t))), js,
        "continue", "none")

\* compiler.rs:94-101
SimpleArm(vv, js, t) == Arm(Append(vv, to_bc(SimpleInst(t))), js, "continue", "none")

LBrackArm_PushBeforePlaceholder(vv, js) ==
    LET v1 == Append(vv, to_bc("Jz"))
        v2 == v1 \o [k \in 1..ADDR_SIZE |-> Garbage]
    IN  Arm(v2, Append(js, Len(v1)), "continue", "none")

\* compiler.rs:104-118
LBrackArm(vv, js) ==
    LET v1 == Append(vv, to_bc("Jz"))
        v2 == v1 \o [k \in 1..ADDR_SIZE |-> Garbage]
    IN  Arm(v2, Append(js, Len(v2)), "continue", "none")

\* v[from..][..ADDR_SIZE].copy_from_slice(bytes) (compiler.rs:135), `from`
\* a 0-based offset.
CopyFromSlice(vv, from, bytes) ==
    [k \in 1..Len(vv) |->
        IF k > from /\ k <= from + ADDR_SIZE THEN bytes[k - from] ELSE vv[k]]

RBrackArm_PatchBeforeExtend(vv, js) ==
    LET v1 == Append(vv, to_bc("Jnz"))
    IN  IF js = <<>>
        THEN Arm(v1, js, "Err", "RBrack")
        ELSE LET jump_addr == js[Len(js)]
                 js1 == SubSeq(js, 1, Len(js) - 1)
                 v2 == v1 \o to_le_bytes(jump_addr)
             IN  Arm(CopyFromSlice(v2, jump_addr - ADDR_SIZE, to_le_bytes(Len(v1))),
                     js1, "continue", "none")

RBrackArm_IgnoreEmpty(vv, js) ==
    LET v1 == Append(vv, to_bc("Jnz"))
    IN  IF js = <<>>
        THEN Arm(v1 \o to_le_bytes(0), js, "continue", "none")
        ELSE LET jump_addr == js[Len(js)]
                 js1 == SubSeq(js, 1, Len(js) - 1)
                 v2 == v1 \o to_le_bytes(jump_addr)
             IN  Arm(CopyFromSlice(v2, jump_addr - ADDR_SIZE, to_le_bytes(Len(v2))),
                     js1, "continue", "none")

\* compiler.rs:120-151
RBrackArm(vv, js) ==
    LET v1 == Append(vv, to_bc("Jnz"))
    IN  IF js = <<>>
        THEN Arm(v1, js, "Err", "RBrack")
        ELSE LET jump_addr == js[Len(js)]
                 js1 == SubSeq(js, 1, Len(js) - 1)
             IN  IF ~AddrFits(jump_addr)
                 THEN Arm(v1, js1, "Err", "Addr")
                 ELSE LET v2 == v1 \o to_le_bytes(jump_addr)
                      IN  IF ~AddrFits(Len(v2))
                          THEN Arm(v2, js1, "Err", "Addr")
                          ELSE Arm(CopyFromSlice(v2, jump_addr - ADDR_SIZE,
                                                 to_le_bytes(Len(v2))),
                                   js1, "continue", "none")

CommentArm_Emit(vv, js) == Arm(Append(vv, Garbage), js, "continue", "none")

\* compiler.rs:153
CommentArm(vv, js) == Arm(vv, js, "continue", "none")

EofArm_NoHalt(vv, js) ==
    IF js # <<>>
    THEN Arm(vv, js, "Err", "Eof")
    ELSE Arm(vv, js, "Ok", "none")

EofArm_IgnoreOpen(vv, js) == Arm(Append(vv, to_bc("Halt")), js, "Ok", "none")

\* compiler.rs:155-171
EofArm(vv, js) ==
    IF js # <<>>
    THEN Arm(vv, js, "Err", "Eof")
    ELSE Arm(Append(vv, to_bc("Halt")), js, "Ok", "none")

\* One turn of compile's loop on token t (compiler.rs:92-172).
CompileToken(vv, js, t) ==
    CASE t \in SimpleTokens -> SimpleArm(vv, js, t)
      [] t = "LBrack" -> LBrackArm(vv, js)
      [] t = "RBrack" -> RBrackArm(vv, js)
      [] t = "Comment" -> CommentArm(vv, js)
      [] t = "Eof" -> EofArm(vv, js)

\* compile (compiler.rs:83-174) as a function of the lexer's remaining
\* input and the state of the loop: the arm the loop breaks with.
RECURSIVE CompileFrom(_, _, _)
CompileFrom(src, vv, js) ==
    LET a == CompileToken(vv, js, LexerNext(src))
    IN  IF a.brk = "continue" THEN CompileFrom(Tail(src), a.v, a.jump_stack)
        ELSE a

\* compile(Lexer(src)): empty buffer and empty jump stack (compiler.rs:84-85).
Compile(src) == CompileFrom(src, <<>>, <<>>)

\* The payload of the value compile breaks with: every failure is Err(()),
\* the unit value (compiler.rs:83, 125, 128, 134, 158).
ErrPayload(a) == IF a.brk = "Err" THEN "unit" ELSE "none"

\* --------------------------------------------------------------- state
VARIABLES
    text,         \* main.rs:53    interpret's `source: &str`
    build,        \* whether the build checks integer overflow; it matters
                  \* to the engine only and is fixed when the engine starts
    phase,        \* where the call of interpret is
    source,       \* lex.rs:43     what the lexer's iterator still holds
    v,            \* compiler.rs:84  the buffer under construction
    jump_stack,   \* compiler.rs:85
    result,       \* compiler.rs:83  what compile returned: "none" yet, "Ok", "Err"
    err,          \* the payload of Err: the unit value
    err_site,     \* the arm of compile the error was raised in
    bc,           \* main.rs:58    the byte code compile returned
    constructed,  \* main.rs:60    whether Interpreter(..) was called
    cursor,       \* interpreter.rs:27
    ptr,          \* interpreter.rs:34
    data,         \* interpreter.rs:33
    in_calls,     \* number of calls of the input capability
    in_log,       \* the bytes the input capability handed over, in order
    out_log,      \* the bytes handed to the output capability, in order
    panic,        \* the panic that ended the run, "none" if none
    frames        \* the call stack, innermost frame last

vars == <<text, build, phase, source, v, jump_stack, result, err, err_site, bc,
          constructed, cursor, ptr, data, in_calls, in_log, out_log, panic, frames>>

compileVars == <<source, v, jump_stack, result, err, err_site, bc>>
engineVars == <<constructed, cursor, ptr, data, in_calls, in_log, out_log, panic>>

RECURSIVE SeqsUpTo(_, _)
SeqsUpTo(S, n) ==
    IF n = 0 THEN {<<>>}
    ELSE LET shorter == SeqsUpTo(S, n - 1)
         IN  shorter \cup {Append(s, c) : s \in shorter, c \in S}

\* The echo loop ",[.,]".
EchoLoop == <<",", "[", ".", ",", "]">>

\* Every text of at most MaxLen bytes, and the echo loop.
Texts == SeqsUpTo(Chars, MaxLen) \cup {EchoLoop}

\* interpret is entered (main.rs:52-57): the lexer holds the whole text and
\* nothing else exists yet.
Init ==
    /\ text \in Texts
    /\ build = "unset"
    /\ phase = "compile"
    /\ source = text
    /\ v = <<>>
    /\ jump_stack = <<>>
    /\ result = "none"
    /\ err = "none"
    /\ err_site = "none"
    /\ bc = <<>>
    /\ constructed = FALSE
    /\ cursor = 0
    /\ ptr = 0
    /\ data = <<>>
    /\ in_calls = 0
    /\ in_log = <<>>
    /\ out_log = <<>>
    /\ panic = "none"
    /\ frames = <<"interpret">>

\* ---------------------------------------------------------- compile steps
\* One turn of compile's loop (compiler.rs:87-173): the lexer yields a
\* token, the matching arm runs.  When the loop breaks, compile returns:
\* Ok hands the buffer out, Err drops it.
CompileStep ==
    /\ phase = "compile"
    /\ LET a == CompileToken(v, jump_stack, LexerNext(source))
       IN  /\ source' = IF source = <<>> THEN source ELSE Tail(source)
           /\ v' = a.v
           /\ jump_stack' = a.jump_stack
           /\ IF a.brk = "continue"
              THEN /\ phase' = "compile"
                   /\ UNCHANGED <<result, err, err_site, bc>>
              ELSE /\ phase' = "compiled"
                   /\ result' = a.brk
                   /\ err' = ErrPayload(a)
                   /\ err_site' = a.site
                   /\ bc' = IF a.brk = "Ok" THEN a.v ELSE <<>>
    /\ UNCHANGED <<text, build, frames>>
    /\ UNCHANGED engineVars

\* ----------------------------------------------------------- main.rs
\* `compile(lexer)?` on Err (main.rs:58): interpret returns the error and
\* nothing else happens.
PropagateErr ==
    /\ phase = "compiled"
    /\ result = "Err"
    /\ phase' = "returned_err"
    /\ frames' = <<>>
    /\ UNCHANGED <<text, build>>
    /\ UNCHANGED compileVars
    /\ UNCHANGED engineVars

\* -------------------------------------------------------- interpreter.rs
\* Interpreter::inst (interpreter.rs:206-208) at cursor c: the decoded
\* opcode, "None" where bc[c] is out of bounds or from_bc(..) is None and
\* the unwrap panics.
InstAt(code, c) == IF c < Len(code) THEN from_bc(code[c + 1]) ELSE "None"

\* Interpreter::DISPATCH_TABLE (interpreter.rs:50-67): the handler stored
\* at each index, index 0 first.
DISPATCH_TABLE ==
    <<"inc_ptr", "dec_ptr", "inc", "dec", "out", "inp", "jz", "jnz", "halt">>

\* DISPATCH_TABLE[self.inst() as usize] (interpreter.rs:71): the index is
\* the discriminant of the decoded instruction.
HandlerOf(i) == DISPATCH_TABLE[to_bc(i) + 1]

Become_Call(fr, f) == Append(fr, f)

\* `become f(..)` (interpreter.rs:71, 79, 88, ...): the frame of the caller
\* is replaced by the frame of f.
Become(fr, f) == [fr EXCEPT ![Len(fr)] = f]

\* Interpreter::dispatch (interpreter.rs:70-72) entered with the cursor at
\* c and the call stack fr, dispatch's frame on top: the run goes on in the
\* handler the table holds for the instruction at c, or panics in inst().
Dispatch(c, fr) ==
    /\ cursor' = c
    /\ IF InstAt(bc, c) = "None"
       THEN phase' = "panicked" /\ panic' = "decode" /\ frames' = fr
       ELSE /\ phase' = "run"
            /\ panic' = "none"
            /\ frames' = Become(fr, HandlerOf(InstAt(bc, c)))

\* `become self.dispatch()` from a handler (interpreter.rs:145, 164).
JumpTo(c) == Dispatch(c, Become(frames, "dispatch"))

\* Interpreter::next (interpreter.rs:75-80) entered from a handler with the
\* cursor at c: the cursor moves on by one and dispatch takes over.
NextFrom(c) == Dispatch(c + 1, Become(Become(frames, "next"), "dispatch"))

NextInst == NextFrom(cursor)

\* The run ends in a panic raised inside a handler.
Panics(why) ==
    /\ phase' = "panicked"
    /\ panic' = why
    /\ cursor' = cursor
    /\ frames' = frames

\* Vec::resize(n, 0) (interpreter.rs:184, 194).
Resize(d, n) ==
    IF n <= Len(d) THEN SubSeq(d, 1, n)
    ELSE d \o [k \in 1..(n - Len(d)) |-> 0]

\* Interpreter::deref / deref_mut (interpreter.rs:182-198) with the pointer
\* at p: the tape after the resize and the panic the call ends in, if any.
\* `self.ptr + 1` overflows for the largest usize: checked builds panic,
\* unchecked builds wrap to 0.
Deref(d, p, b) ==
    LET overflow == p + 1 > UsizeMax
        grown == IF Len(d) <= p
                 THEN Resize(d, (p + 1) % UsizeMod)
                 ELSE d
    IN  IF Len(d) <= p /\ overflow /\ b = "debug"
        THEN [data |-> d, panic |-> "overflow"]
        ELSE IF p < Len(grown)
        THEN [data |-> grown, panic |-> "none"]
        ELSE [data |-> grown, panic |-> "index"]

Construct_Unchecked ==
    /\ phase = "compiled"
    /\ constructed' = TRUE
    /\ build' \in Builds
    /\ ptr' = 0
    /\ data' = <<>>
    /\ Dispatch(0, <<"interpret", "run", "dispatch">>)
    /\ UNCHANGED <<text, in_calls, in_log, out_log>>
    /\ UNCHANGED compileVars

\* main.rs:58-60: compile returned Ok, so the engine is constructed over
\* the byte code (interpreter.rs:8-21) and run() calls dispatch for the
\* first instruction (interpreter.rs:42-48).
Construct ==
    /\ phase = "compiled"
    /\ result = "Ok"
    /\ constructed' = TRUE
    /\ build' \in Builds
    /\ ptr' = 0
    /\ data' = <<>>
    /\ Dispatch(0, <<"interpret", "run", "dispatch">>)
    /\ UNCHANGED <<text, in_calls, in_log, out_log>>
    /\ UNCHANGED compileVars

\* Interpreter::at (interpreter.rs:201-203), while the engine runs.
At(i) == phase = "run" /\ InstAt(bc, cursor) = i

\* The engine is in handler h: h's frame is on top of the call stack.
In(h) == phase = "run" /\ frames[Len(frames)] = h

\* debug_assert!(self.at(i)) at the entry of a handler (interpreter.rs:84,
\* 93, ...) fails; builds without debug assertions do not evaluate it.
AssertFails(i) == build = "debug" /\ InstAt(bc, cursor) # i

\* interpreter.rs:83-89
inc_ptr ==
    /\ In("inc_ptr")
    /\ ptr < MaxPtr \/ ptr = UsizeMax
    /\ IF AssertFails("IncPtr")
       THEN Panics("assert") /\ ptr' = ptr
       ELSE IF ptr + 1 > UsizeMax /\ build = "debug"
       THEN Panics("overflow") /\ ptr' = ptr
       ELSE ptr' = (ptr + 1) % UsizeMod /\ NextInst
    /\ UNCHANGED <<text, build, constructed, data, in_calls, in_log, out_log>>
    /\ UNCHANGED compileVars

\* interpreter.rs:92-98
dec_ptr ==
    /\ In("dec_ptr")
    /\ IF AssertFails("DecPtr")
       THEN Panics("assert") /\ ptr' = ptr
       ELSE IF ptr - 1 < 0 /\ build = "debug"
       THEN Panics("overflow") /\ ptr' = ptr
       ELSE ptr' = (ptr - 1) % UsizeMod /\ NextInst
    /\ UNCHANGED <<text, build, constructed, data, in_calls, in_log, out_log>>
    /\ UNCHANGED compileVars

\* u8::wrapping_add(1) / wrapping_sub(1) (interpreter.rs:105, 114)
wrapping_add(x, y) == (x + y) % ByteMod
wrapping_sub(x, y) == (x - y) % ByteMod

\* Writing x through the reference deref_mut returned.
Store(d, p, x) == [d EXCEPT ![p + 1] = x]

\* interpreter.rs:101-107
inc ==
    /\ In("inc")
    /\ IF AssertFails("Inc")
       THEN Panics("assert") /\ data' = data
       ELSE LET r == Deref(data, ptr, build)
            IN  IF r.panic # "none"
                THEN Panics(r.panic) /\ data' = r.data
                ELSE /\ data' = Store(r.data, ptr, wrapping_add(r.data[ptr + 1], 1))
                     /\ NextInst
    /\ UNCHANGED <<text, build, constructed, ptr, in_calls, in_log, out_log>>
    /\ UNCHANGED compileVars

\* interpreter.rs:110-116
dec ==
    /\ In("dec")
    /\ IF AssertFails("Dec")
       THEN Panics("assert") /\ data' = data
       ELSE LET r == Deref(data, ptr, build)
            IN  IF r.panic # "none"
                THEN Panics(r.panic) /\ data' = r.data
                ELSE /\ data' = Store(r.data, ptr, wrapping_sub(r.data[ptr + 1], 1))
                     /\ NextInst
    /\ UNCHANGED <<text, build, constructed, ptr, in_calls, in_log, out_log>>
    /\ UNCHANGED compileVars

\* interpreter.rs:119-126: the cell is read, then handed to the output
\* capability.
out ==
    /\ In("out")
    /\ Len(out_log) < MaxOut
    /\ IF AssertFails("Out")
       THEN Panics("assert") /\ UNCHANGED <<data, out_log>>
       ELSE LET r == Deref(data, ptr, build)
            IN  /\ data' = r.data
                /\ IF r.panic # "none"
                   THEN Panics(r.panic) /\ out_log' = out_log
                   ELSE out_log' = Append(out_log, r.data[ptr + 1]) /\ NextInst
    /\ UNCHANGED <<text, build, constructed, ptr, in_calls, in_log>>
    /\ UNCHANGED compileVars

inp_ZeroOnExhaustion ==
    /\ In("inp")
    /\ IF AssertFails("Inp")
       THEN Panics("assert") /\ UNCHANGED <<data, in_calls, in_log>>
       ELSE /\ in_calls' = in_calls + 1
            /\ \E b \in IF in_calls < MaxIn THEN InputBytes \cup {-1} ELSE {-1} :
                 LET r == Deref(data, ptr, build)
                     x == IF b = -1 THEN 0 ELSE b
                 IN  /\ in_log' = Append(in_log, x)
                     /\ IF r.panic # "none"
                        THEN Panics(r.panic) /\ data' = r.data
                        ELSE data' = Store(r.data, ptr, x) /\ NextInst
    /\ UNCHANGED <<text, build, constructed, ptr, out_log>>
    /\ UNCHANGED compileVars

\* interpreter.rs:129-134: the assigned value is evaluated first, so the
\* input capability is called before deref_mut.  The capability
\* (main.rs:32-36) hands over the next byte of an input stream of at most
\* MaxIn bytes; on an exhausted stream its read_exact(..).unwrap() panics
\* and the panic unwinds through the handler.
inp ==
    /\ In("inp")
    /\ IF AssertFails("Inp")
       THEN Panics("assert") /\ UNCHANGED <<data, in_calls, in_log>>
       ELSE /\ in_calls' = in_calls + 1
            /\ \/ /\ in_calls < MaxIn
                  /\ \E b \in InputBytes :
                       LET r == Deref(data, ptr, build)
                       IN  /\ in_log' = Append(in_log, b)
                           /\ IF r.panic # "none"
                              THEN Panics(r.panic) /\ data' = r.data
                              ELSE data' = Store(r.data, ptr, b) /\ NextInst
               \/ Panics("input") /\ UNCHANGED <<data, in_log>>
    /\ UNCHANGED <<text, build, constructed, ptr, out_log>>
    /\ UNCHANGED compileVars

\* The slice bc[cursor..][1..][..ADDR_SIZE] (interpreter.rs:141, 160) is in
\* bounds.
AddrInBounds == cursor + 1 + ADDR_SIZE <= Len(bc)

jz_Inverted ==
    /\ In("jz")
    /\ IF AssertFails("Jz")
       THEN Panics("assert") /\ data' = data
       ELSE IF ~AddrInBounds
       THEN Panics("slice") /\ data' = data
       ELSE LET addr == from_le_bytes(bc, cursor)
                r == Deref(data, ptr, build)
            IN  /\ data' = r.data
                /\ IF r.panic # "none"
                   THEN Panics(r.panic)
                   ELSE IF r.data[ptr + 1] # 0
                   THEN JumpTo(addr)
                   ELSE NextFrom(cursor + ADDR_SIZE)
    /\ UNCHANGED <<text, build, constructed, ptr, in_calls, in_log, out_log>>
    /\ UNCHANGED compileVars

\* interpreter.rs:137-153
jz ==
    /\ In("jz")
    /\ IF AssertFails("Jz")
       THEN Panics("assert") /\ data' = data
       ELSE IF ~AddrInBounds
       THEN Panics("slice") /\ data' = data
       ELSE LET addr == from_le_bytes(bc, cursor)
                r == Deref(data, ptr, build)
            IN  /\ data' = r.data
                /\ IF r.panic # "none"
                   THEN Panics(r.panic)
                   ELSE IF r.data[ptr + 1] = 0
                   THEN JumpTo(addr)
                   ELSE NextFrom(cursor + ADDR_SIZE)
    /\ UNCHANGED <<text, build, constructed, ptr, in_calls, in_log, out_log>>
    /\ UNCHANGED compileVars

jnz_NoSkip ==
    /\ In("jnz")
    /\ IF AssertFails("Jnz")
       THEN Panics("assert") /\ data' = data
       ELSE IF ~AddrInBounds
       THEN Panics("slice") /\ data' = data
       ELSE LET addr == from_le_bytes(bc, cursor)
                r == Deref(data, ptr, build)
            IN  /\ data' = r.data
                /\ IF r.panic # "none"
                   THEN Panics(r.panic)
                   ELSE IF r.data[ptr + 1] # 0
                   THEN JumpTo(addr)
                   ELSE NextFrom(cursor)
    /\ UNCHANGED <<text, build, constructed, ptr, in_calls, in_log, out_log>>
    /\ UNCHANGED compileVars

\* interpreter.rs:156-172
jnz ==
    /\ In("jnz")
    /\ IF AssertFails("Jnz")
       THEN Panics("assert") /\ data' = data
       ELSE IF ~AddrInBounds
       THEN Panics("slice") /\ data' = data
       ELSE LET addr == from_le_bytes(bc, cursor)
                r == Deref(data, ptr, build)
            IN  /\ data' = r.data
                /\ IF r.panic # "none"
                   THEN Panics(r.panic)
                   ELSE IF r.data[ptr + 1] # 0
                   THEN JumpTo(addr)
                   ELSE NextFrom(cursor + ADDR_SIZE)
    /\ UNCHANGED <<text, build, constructed, ptr, in_calls, in_log, out_log>>
    /\ UNCHANGED compileVars

halt_KeepsGoing ==
    /\ In("halt")
    /\ NextInst
    /\ UNCHANGED <<text, build, constructed, ptr, data, in_calls, in_log, out_log>>
    /\ UNCHANGED compileVars

\* interpreter.rs:175-179: nothing is dispatched any more; the handler
\* returns to run, run returns and interpret returns Ok(()) (main.rs:60-62).
halt ==
    /\ In("halt")
    /\ IF AssertFails("Halt")
       THEN Panics("assert")
       ELSE phase' = "halted" /\ frames' = <<>> /\ UNCHANGED <<cursor, panic>>
    /\ UNCHANGED <<text, build, constructed, ptr, data, in_calls, in_log, out_log>>
    /\ UNCHANGED compileVars

Next ==
    \/ CompileStep
    \/ PropagateErr
    \/ Construct
    \/ inc_ptr
    \/ dec_ptr
    \/ inc
    \/ dec
    \/ out
    \/ inp
    \/ jz
    \/ jnz
    \/ halt

Spec == Init /\ [][Next]_vars

\* A text without loop tokens.
LoopFree(t) == \A i \in 1..Len(t) : t[i] \notin {"[", "]"}

\* A text of commands only: no byte of it is a comment.
CommandsOnly(t) == \A i \in 1..Len(t) : t[i] # "x"

\* The texts of commands without loops, and with them the echo loop and the
\* lone loop-end, so that the jumps and the failure of compile are among
\* the runs.
FairTexts ==
    {t \in Texts : LoopFree(t) /\ CommandsOnly(t)} \cup {EchoLoop, <<"]">>}

\* interpret is entered on one of those texts.
FairInit == Init /\ text \in FairTexts

\* The runs of those texts.  The program is sequential code on one thread:
\* as long as a step is possible, the next step is taken.
FairSpec == FairInit /\ [][Next]_vars /\ WF_vars(Next)

\* ===================================================================
\* compile on sources whose byte code outgrows the address field
\* (compiler.rs:83-174).  An offset of 2^32 or more does not fit the model
\* checker's integers, so here an offset is kept as two limbs of half an
\* address each, value = hi * Limb + lo; the source is run-length encoded,
\* a chunk being n equal simple tokens or one bracket; and the buffer is
\* kept as its length and the address fields written into it, each field
\* named by the offset just past it.
\* ===================================================================
\* Most chunks in a source.
MaxChunks == 3

Limb == ByteMod ^ (ADDR_SIZE \div 2)

Wide(hi, lo) == [hi |-> hi, lo |-> lo]
WideOf(n) == Wide(n \div Limb, n % Limb)
WideAdd(x, y) ==
    LET s == x.lo + y.lo
    IN  Wide(x.hi + y.hi + s \div Limb, s % Limb)

WideAddrFits_Truncating(x) == TRUE

\* Addr::try_from(usize) (compiler.rs:128, 134): Ok when the value is
\* below 2^32.
WideAddrFits(x) == x.hi < Limb

\* Addr::to_le_bytes (compiler.rs:128, 134) of the low 32 bits.
WideToLeBytes(x) ==
    <<x.lo % ByteMod, x.lo \div ByteMod,
      x.hi % ByteMod, (x.hi \div ByteMod) % ByteMod>>

\* Addr::from_le_bytes (interpreter.rs:140-141, 159-160)
WideFromLeBytes(bs) ==
    Wide(bs[3] + ByteMod * bs[4], bs[1] + ByteMod * bs[2])

Field(end, bytes) == [end |-> end, bytes |-> bytes]
WideBuf(len, fields) == [len |-> len, fields |-> fields]

\* compiler.rs:94-101, run n times in a row.
WideSimpleArm(vv, js, n) ==
    Arm(WideBuf(WideAdd(vv.len, n), vv.fields), js, "continue", "none")

\* compiler.rs:104-118
WideLBrackArm(vv, js) ==
    LET len2 == WideAdd(vv.len, WideOf(1 + ADDR_SIZE))
        garbage == [k \in 1..ADDR_SIZE |-> Garbage]
    IN  Arm(WideBuf(len2, Append(vv.fields, Field(len2, garbage))),
            Append(js, len2), "continue", "none")

\* v[jump_addr - ADDR_SIZE..][..ADDR_SIZE].copy_from_slice(bytes)
\* (compiler.rs:135): the field that ends at jump_addr is overwritten.
WideCopyFromSlice(fields, jump_addr, bytes) ==
    [k \in 1..Len(fields) |->
        IF fields[k].end = jump_addr THEN Field(jump_addr, bytes) ELSE fields[k]]

\* compiler.rs:120-151
WideRBrackArm(vv, js) ==
    LET v1 == WideBuf(WideAdd(vv.len, WideOf(1)), vv.fields)
    IN  IF js = <<>>
        THEN Arm(v1, js, "Err", "RBrack")
        ELSE LET jump_addr == js[Len(js)]
                 js1 == SubSeq(js, 1, Len(js) - 1)
             IN  IF ~WideAddrFits(jump_addr)
                 THEN Arm(v1, js1, "Err", "Addr")
                 ELSE LET len2 == WideAdd(v1.len, WideOf(ADDR_SIZE))
                          v2 == WideBuf(len2,
                                    Append(v1.fields,
                                           Field(len2, WideToLeBytes(jump_addr))))
                      IN  IF ~WideAddrFits(len2)
                          THEN Arm(v2, js1, "Err", "Addr")
                          ELSE Arm(WideBuf(len2,
                                       WideCopyFromSlice(v2.fields, jump_addr,
                                                         WideToLeBytes(len2))),
                                   js1, "continue", "none")

\* compiler.rs:155-171
WideEofArm(vv, js) ==
    IF js # <<>>
    THEN Arm(vv, js, "Err", "Eof")
    ELSE Arm(WideBuf(WideAdd(vv.len, WideOf(1)), vv.fields), js, "Ok", "none")

\* One chunk through compile's loop (compiler.rs:92-172).
WideCompileToken(vv, js, src) ==
    IF src = <<>> THEN WideEofArm(vv, js)
    ELSE CASE Head(src).c = "[" -> WideLBrackArm(vv, js)
           [] Head(src).c = "]" -> WideRBrackArm(vv, js)
           [] OTHER -> WideSimpleArm(vv, js, Head(src).n)

Chunk(c, n) == [c |-> c, n |-> n]

\* Run lengths that put a loop's two targets just below, at and just above
\* 2^32.
Runs ==
    {WideOf(1), Wide(Limb - 1, Limb - 11), Wide(Limb - 1, Limb - 10),
     Wide(Limb - 1, Limb - 5)}

Chunks ==
    {Chunk("+", n) : n \in Runs} \cup {Chunk("[", WideOf(1)), Chunk("]", WideOf(1))}

WideTexts == SeqsUpTo(Chunks, MaxChunks)

\* interpret is entered on a run-length encoded text (main.rs:52-57).
WideInit ==
    /\ text \in WideTexts
    /\ build = "unset"
    /\ phase = "compile"
    /\ source = text
    /\ v = WideBuf(WideOf(0), <<>>)
    /\ jump_stack = <<>>
    /\ result = "none"
    /\ err = "none"
    /\ err_site = "none"
    /\ bc = <<>>
    /\ constructed = FALSE
    /\ cursor = 0
    /\ ptr = 0
    /\ data = <<>>
    /\ in_calls = 0
    /\ in_log = <<>>
    /\ out_log = <<>>
    /\ panic = "none"
    /\ frames = <<"interpret">>

\* One chunk's turns of compile's loop (compiler.rs:87-173).
WideCompileStep ==
    /\ phase = "compile"
    /\ LET a == WideCompileToken(v, jump_stack, source)
       IN  /\ source' = IF source = <<>> THEN source ELSE Tail(source)
           /\ v' = a.v
           /\ jump_stack' = a.jump_stack
           /\ IF a.brk = "continue"
              THEN /\ phase' = "compile"
                   /\ UNCHANGED <<result, err, err_site, bc>>
              ELSE /\ phase' = "compiled"
                   /\ result' = a.brk
                   /\ err' = ErrPayload(a)
                   /\ err_site' = a.site
                   /\ bc' = IF a.brk = "Ok" THEN a.v ELSE <<>>
    /\ UNCHANGED <<text, build, frames>>
    /\ UNCHANGED engineVars

WideSpec == WideInit /\ [][WideCompileStep]_vars

\* ===================================================================
\* What the program text says, read off the text alone: bracket balance,
\* the matching bracket, the size and the offset of what each byte emits.
\* ===================================================================
RECURSIVE Balance(_, _)
\* Loop-starts minus loop-ends among the first n bytes of t.
Balance(t, n) ==
    IF n = 0 THEN 0
    ELSE Balance(t, n - 1)
         + (IF t[n] = "[" THEN 1 ELSE IF t[n] = "]" THEN -1 ELSE 0)

HasExcessEnd(t) == \E i \in 1..Len(t) : Balance(t, i) < 0

FirstExcessEnd(t) ==
    CHOOSE i \in 1..Len(t) :
        Balance(t, i) < 0 /\ \A k \in 1..(i - 1) : Balance(t, k) >= 0

Balanced(t) == ~HasExcessEnd(t) /\ Balance(t, Len(t)) = 0

UnclosedAtEof(t) == ~HasExcessEnd(t) /\ Balance(t, Len(t)) > 0

IsSimple(c) == c \in {">", "<", "+", "-", ".", ","}
IsLoop(c) == c \in {"[", "]"}

EmitSize(c) == IF IsSimple(c) THEN 1 ELSE IF IsLoop(c) THEN 1 + ADDR_SIZE ELSE 0

RECURSIVE OffsetOf(_, _)
\* The offset at which the i-th byte of t emits its opcode.
OffsetOf(t, i) ==
    IF i = 1 THEN 0 ELSE OffsetOf(t, i - 1) + EmitSize(t[i - 1])

\* The loop-end matching the loop-start at i.
MatchOf(t, i) ==
    CHOOSE j \in (i + 1)..Len(t) :
        /\ t[j] = "]"
        /\ Balance(t, j) = Balance(t, i - 1)
        /\ \A k \in i..(j - 1) : Balance(t, k) > Balance(t, i - 1)

\* The instruction a byte of the text stands for.
InstOfChar(c) ==
    CASE c = ">" -> "IncPtr"
      [] c = "<" -> "DecPtr"
      [] c = "+" -> "Inc"
      [] c = "-" -> "Dec"
      [] c = "." -> "Out"
      [] c = "," -> "Inp"
      [] c = "[" -> "Jz"
      [] c = "]" -> "Jnz"

RECURSIVE ExpectedInsts(_)
\* The instructions of t in source order, comments left out, and the halt.
ExpectedInsts(t) ==
    IF t = <<>> THEN <<"Halt">>
    ELSE IF IsSimple(Head(t)) \/ IsLoop(Head(t))
    THEN <<InstOfChar(Head(t))>> \o ExpectedInsts(Tail(t))
    ELSE ExpectedInsts(Tail(t))

StripComments(t) == SelectSeq(t, LAMBDA c : IsSimple(c) \/ IsLoop(c))

IsJump(b) == b = 6 \/ b = 7

RECURSIVE DecodeFrom(_, _)
\* The offsets at which instructions start when code is read as an
\* instruction stream from offset o: 1 byte per simple opcode, 1 + 4 per jump.
DecodeFrom(code, o) ==
    IF o >= Len(code) THEN <<>>
    ELSE <<o>> \o DecodeFrom(code, o + (IF IsJump(code[o + 1]) THEN 5 ELSE 1))

Decoded(code) == DecodeFrom(code, 0)

\* compile has returned.
Returned == phase = "compiled"

\* ===================================================================
\* Claims
\* ===================================================================

\* C1: when compile succeeds, every jump-if-zero carries, little-endian in
\* its 4 address bytes, the offset just past the address field of the
\* matching jump-if-nonzero, and every jump-if-nonzero carries the offset
\* just past the address field of the matching jump-if-zero, whatever the
\* nesting and sequencing of the loops.
C1_JumpTargets ==
    (Returned /\ result = "Ok") =>
        \A i \in 1..Len(text) :
            text[i] = "[" =>
                LET j == MatchOf(text, i)
                    oi == OffsetOf(text, i)
                    oj == OffsetOf(text, j)
                IN  /\ bc[oi + 1] = 6
                    /\ bc[oj + 1] = 7
                    /\ SubSeq(bc, oi + 2, oi + 5)
                         = <<(oj + 5) % 256, ((oj + 5) \div 256) % 256,
                             ((oj + 5) \div 65536) % 256, (oj + 5) \div 16777216>>
                    /\ from_le_bytes(bc, oi) = oj + 5
                    /\ from_le_bytes(bc, oj) = oi + 5

C1_Witness ==
    Returned /\ result = "Ok" /\ text = <<"[", "[", "]", "]">>

ErrOfUnmatchedLoopEnd == ErrPayload(Compile(<<"]">>))

C4_HaltOnceAtEnd ==
    (Returned /\ result = "Ok") =>
        /\ bc # <<>>
        /\ bc[Len(bc)] = 8
        /\ LET d == Decoded(bc)
           IN  {k \in 1..Len(d) : bc[d[k] + 1] = 8} = {Len(d)}
               /\ d[Len(d)] = Len(bc) - 1

C4_Witness ==
    Returned /\ result = "Ok" /\ text = <<"+", "[", "-", "]">> /\ Len(bc) = 13

AllComments(t) == \A i \in 1..Len(t) : ~IsSimple(t[i]) /\ ~IsLoop(t[i])

\* C6: compile of the empty text, and of a text of comments only, succeeds
\* with the one-byte buffer holding the halt opcode; and a failure is told
\* apart from it: a failed compile is Err and hands out no buffer.
C6_EmptyProgram ==
    Returned =>
        /\ AllComments(text) => (result = "Ok" /\ bc = <<8>>)
        /\ result \in {"Ok", "Err"}
        /\ result = "Err" => (bc = <<>> /\ err # "none")
        /\ result = "Ok" => (bc # <<>> /\ err = "none")

C6_Witness ==
    Returned /\ text = <<"x", "x">> /\ result = "Ok" /\ bc = <<8>>

C6_WitnessEmpty ==
    Returned /\ text = <<>> /\ result = "Ok" /\ bc = <<8>>

\* C7: when compile fails nothing is executed: the engine is never
\* constructed, no instruction is dispatched, and neither capability is
\* called, also when instructions precede the bracket mismatch.
C7_NoExecutionOnError ==
    /\ result = "Err" =>
          /\ ~constructed
          /\ phase \in {"compiled", "returned_err"}
          /\ in_calls = 0
          /\ out_log = <<>>
          /\ data = <<>> /\ cursor = 0 /\ ptr = 0
    /\ ~constructed => (in_calls = 0 /\ out_log = <<>>)

C7_Witness ==
    phase = "returned_err" /\ text \in {<<".", "]">>, <<"+", ".", "[">>}

\* The value of cell q of tape d: a cell the tape does not hold yet is 0.
Cell(d, q) == IF q < Len(d) THEN d[q + 1] ELSE 0

\* The cells any run of the model can have touched.
CellIndexes == 0..(MaxPtr + 1)

\* C8: in every engine state the data pointer is a valid tape index, that
\* is, a tape of pointer + 1 cells exists: pointer-left never takes the
\* pointer below zero, which in usize is the wrap to the largest value.
C8_PointerValid ==
    constructed => (ptr >= 0 /\ ptr + 1 <= UsizeMax)

\* C9: an increment-cell (decrement-cell) step changes the cell at the data
\* pointer by +1 (-1) modulo 256 and changes no other cell, nor the
\* pointer, nor the input or output: 0 decrements to 255 and 255
\* increments to 0.
C9_IncDecModulo256 ==
    [][ /\ At("Inc") =>
            /\ Cell(data', ptr) = (Cell(data, ptr) + 1) % 256
            /\ (Cell(data, ptr) = 255 => Cell(data', ptr) = 0)
            /\ \A q \in CellIndexes \ {ptr} : Cell(data', q) = Cell(data, q)
            /\ ptr' = ptr /\ in_calls' = in_calls /\ out_log' = out_log
        /\ At("Dec") =>
            /\ Cell(data', ptr) = (Cell(data, ptr) + 255) % 256
            /\ (Cell(data, ptr) = 0 => Cell(data', ptr) = 255)
            /\ \A q \in CellIndexes \ {ptr} : Cell(data', q) = Cell(data, q)
            /\ ptr' = ptr /\ in_calls' = in_calls /\ out_log' = out_log
      ]_vars

CellAccess == At("Inc") \/ At("Dec") \/ At("Out") \/ At("Inp") \/ At("Jz") \/ At("Jnz")
PointerMove == At("IncPtr") \/ At("DecPtr")

\* C10: at every cell access (increment, decrement, output, input, the test
\* of either jump) the tape holds at least pointer + 1 cells; the tape
\* never gets shorter during a run, it grows at a cell access only, never
\* on a pointer move, the cells growth adds are 0 and the cells it finds
\* keep their values.
C10_TapeGrowth ==
    [][ constructed =>
          /\ Len(data') >= Len(data)
          /\ CellAccess => Len(data') >= ptr + 1
          /\ PointerMove => data' = data
          /\ Len(data') > Len(data) => CellAccess
          /\ \A q \in CellIndexes \ {ptr} :
                 /\ q < Len(data) => Cell(data', q) = Cell(data, q)
                 /\ (q >= Len(data) /\ q < Len(data')) => data'[q + 1] = 0
      ]_vars

\* C11: the output capability is called once per executed output-cell
\* opcode, with the value of the cell at the data pointer, in execution
\* order, and by no other opcode; output-cell leaves the cells and the
\* pointer as they are.  "+++." outputs the single byte 3 and asks for no
\* input.
C11_OutputOncePerOut ==
    [][ /\ At("Out") =>
            /\ out_log' = Append(out_log, Cell(data, ptr))
            /\ \A q \in CellIndexes : Cell(data', q) = Cell(data, q)
            /\ ptr' = ptr /\ in_calls' = in_calls
        /\ ~At("Out") => out_log' = out_log
        /\ (text = <<"+", "+", "+", ".">> /\ phase' = "halted") =>
               (out_log' = <<3>> /\ in_calls' = 0)
      ]_vars

\* C12: when the input capability fails on an input-cell step (its stream,
\* of at most MaxIn bytes, is exhausted) the run aborts at once: the panic
\* leaves the handler, no instruction is dispatched after it, nothing more
\* is output and no cell is written.  The echo loop on a stream of two
\* non-zero bytes outputs exactly those two bytes and aborts on the third
\* request.
C12_InputExhaustion ==
    [][ /\ (At("Inp") /\ (in_calls >= MaxIn \/ panic' = "input")) =>
            /\ phase' = "panicked" /\ panic' = "input"
            /\ in_calls' = in_calls + 1
            /\ UNCHANGED <<data, ptr, cursor, out_log, in_log>>
        /\ phase # "panicked"
        /\ (text = EchoLoop /\ panic' = "input" /\ in_calls' = 3) =>
               (out_log' = in_log' /\ Len(in_log') = 2)
      ]_vars

C12_Witness ==
    /\ text = EchoLoop
    /\ phase = "panicked" /\ panic = "input"
    /\ in_calls = 3
    /\ in_log = <<65, 66>>
    /\ out_log = <<65, 66>>

\* ------------------------------------------------------------------
\* What a run-length encoded text says, read off the text alone.
WideChars(t) == [k \in 1..Len(t) |-> t[k].c]

WideEmitSize(ch) == IF ch.c = "+" THEN ch.n ELSE WideOf(1 + ADDR_SIZE)

RECURSIVE WideOffsetOf(_, _)
\* The offset at which the i-th chunk of t starts to emit.
WideOffsetOf(t, i) ==
    IF i = 1 THEN WideOf(0)
    ELSE WideAdd(WideOffsetOf(t, i - 1), WideEmitSize(t[i - 1]))

\* The offset just past the address field of the bracket at i.
WidePastField(t, i) == WideAdd(WideOffsetOf(t, i), WideOf(1 + ADDR_SIZE))

\* The loops of t opened and closed among its first n chunks with no
\* loop-end in excess before them.
ClosedLoops(t, n) ==
    {p \in (1..n) \X (1..n) :
        /\ p[1] < p[2]
        /\ t[p[1]] = "[" /\ t[p[2]] = "]"
        /\ Balance(t, p[2]) = Balance(t, p[1] - 1)
        /\ \A k \in p[1]..(p[2] - 1) : Balance(t, k) > Balance(t, p[1] - 1)
        /\ \A k \in 1..p[2] : Balance(t, k) >= 0}

\* The address field of buf that ends at offset e holds the offset x.
HoldsAddr(buf, e, x) ==
    \E k \in 1..Len(buf.fields) :
        /\ buf.fields[k].end = e
        /\ WideFromLeBytes(buf.fields[k].bytes) = x

C14_BoundedStack ==
    /\ Len(frames) <= Len(<<"interpret", "run", "handler">>)
    /\ phase = "run" => SubSeq(frames, 1, 2) = <<"interpret", "run">>

\* The loop of "+[+]" in its 200th iteration.
C14_Witness ==
    /\ text = <<"+", "[", "+", "]">>
    /\ In("jnz")
    /\ Cell(data, ptr) = 200
    /\ Len(frames) = 3

\* The opcodes in the order the claim lists them.
OpcodeOrder ==
    <<"IncPtr", "DecPtr", "Inc", "Dec", "Out", "Inp", "Jz", "Jnz", "Halt">>

\* C15: the nine opcodes have the ordinals 0..8 in the order pointer right,
\* pointer left, increment, decrement, output, input, jump-if-zero,
\* jump-if-nonzero, halt; from_bc undoes to_bc on every opcode, to_bc
\* undoes from_bc on every byte 0..8, from_bc gives None for every larger
\* byte; and the byte under the engine's cursor is the ordinal of the
\* opcode decoded from it, which selects that opcode's handler.
C15_Ordinals ==
    /\ Returned =>
           /\ \A k \in 1..Len(OpcodeOrder) : to_bc(OpcodeOrder[k]) = k - 1
           /\ \A i \in Insts : from_bc(to_bc(i)) = i
           /\ \A b \in 0..8 : from_bc(b) \in Insts /\ to_bc(from_bc(b)) = b
           /\ \A b \in 9..(ByteMod - 1) : from_bc(b) = "None"
    /\ phase = "run" =>
           /\ to_bc(InstAt(bc, cursor)) = bc[cursor + 1]
           /\ DISPATCH_TABLE[bc[cursor + 1] + 1] = frames[Len(frames)]

\* "><+-" compiled to the ordinals 0, 1, 2, 3 and the halt 8, and decoded
\* back byte by byte up to the halt.
C15_Witness ==
    /\ text = <<">", "<", "+", "-">>
    /\ bc = <<0, 1, 2, 3, 8>>
    /\ In("halt")
    /\ cursor = 4

SimpleInsts == {"IncPtr", "DecPtr", "Inc", "Dec", "Out", "Inp"}

\* C16: a jump-if-zero step sets the cursor to the address encoded after
\* the opcode when the cell at the pointer is 0 and moves it on by 5
\* otherwise; a jump-if-nonzero step sets it to the address when the cell
\* is not 0 and moves it on by 5 otherwise; neither changes a cell or the
\* pointer; every step of a simple opcode moves the cursor on by 1 (a step
\* the input capability aborts aside).
C16_CursorSemantics ==
    [][ /\ At("Jz") =>
            /\ cursor' = IF Cell(data, ptr) = 0
                         THEN from_le_bytes(bc, cursor)
                         ELSE cursor + 1 + ADDR_SIZE
            /\ ptr' = ptr
            /\ \A q \in CellIndexes : Cell(data', q) = Cell(data, q)
        /\ At("Jnz") =>
            /\ cursor' = IF Cell(data, ptr) # 0
                         THEN from_le_bytes(bc, cursor)
                         ELSE cursor + 1 + ADDR_SIZE
            /\ ptr' = ptr
            /\ \A q \in CellIndexes : Cell(data', q) = Cell(data, q)
        /\ ((\E i \in SimpleInsts : At(i)) /\ panic' # "input") =>
            cursor' = cursor + 1
      ]_vars

\* Offset o is the first byte of an instruction of code.
InstStart(code, o) ==
    LET starts == Decoded(code)
    IN  \E k \in 1..Len(starts) : starts[k] = o

\* C17: while the engine runs the byte code of a successful compile, the
\* cursor is inside the buffer, on the first byte of an instruction and not
\* past the final halt; the opcode there decodes; the handler running is
\* that opcode's, so its entry assertion holds; the address of a jump lies
\* inside the buffer; and no run ends in a failed decode, a failed entry
\* assertion or an address read out of bounds.
C17_CursorOnInstruction ==
    /\ phase = "run" =>
           /\ 0 <= cursor /\ cursor < Len(bc)
           /\ InstStart(bc, cursor)
           /\ bc[Len(bc)] = to_bc("Halt")
           /\ InstAt(bc, cursor) \in Insts
           /\ frames[Len(frames)] = HandlerOf(InstAt(bc, cursor))
           /\ ~AssertFails(InstAt(bc, cursor))
           /\ (At("Jz") \/ At("Jnz")) => AddrInBounds
    /\ panic \notin {"decode", "assert", "slice"}

\* "+[+]" back at the loop body after the loop-end jumped.
C17_Witness ==
    /\ text = <<"+", "[", "+", "]">>
    /\ In("inc")
    /\ cursor = 6
    /\ Cell(data, ptr) = 2

\* ------------------------------------------------------------------
\* The reference interpreter: it runs the tokens of the text directly and
\* finds the partner of a bracket by matching.
\* The loop-start matching the loop-end at j.
MatchOpen(t, j) ==
    CHOOSE i \in 1..(j - 1) : t[i] = "[" /\ MatchOf(t, i) = j

\* One step of the reference interpreter on the token at pc, with the
\* pointer at p, the tape d and, for an input token, the byte b the input
\* hands over: the next token, the pointer, the value of the cell at p, the
\* bytes put out and the number of input requests.
RefStep(t, pc, p, d, b) ==
    LET c == t[pc]
        x == Cell(d, p)
        R(npc, np, nx, o, i) ==
            [pc |-> npc, ptr |-> np, cell |-> nx, out |-> o, in |-> i]
    IN  CASE c = ">" -> R(pc + 1, p + 1, x, <<>>, 0)
          [] c = "<" -> R(pc + 1, p - 1, x, <<>>, 0)
          [] c = "+" -> R(pc + 1, p, (x + 1) % 256, <<>>, 0)
          [] c = "-" -> R(pc + 1, p, (x + 255) % 256, <<>>, 0)
          [] c = "." -> R(pc + 1, p, x, <<x>>, 0)
          [] c = "," -> R(pc + 1, p, b, <<>>, 1)
          [] c = "[" -> R(IF x = 0 THEN MatchOf(t, pc) + 1 ELSE pc + 1,
                          p, x, <<>>, 0)
          [] c = "]" -> R(IF x # 0 THEN MatchOpen(t, pc) + 1 ELSE pc + 1,
                          p, x, <<>>, 0)

\* The pointer has been moved below 0: as a usize, a value of the upper
\* half of the range.
BelowZero == ptr > UsizeMax \div 2

\* C18: on a balanced text, as long as the pointer is not moved below 0,
\* every step of the engine is the step of the reference interpreter at
\* the token the cursor stands for: the same next token, the same pointer,
\* the same cells, the same input request with the same byte stored, the
\* same output byte; the engine halts exactly when the reference
\* interpreter is at the end of the text; and a request the input cannot
\* serve ends both.
C18_Equivalence ==
    [][ /\ (phase = "run" /\ ~BelowZero /\ ~(At("DecPtr") /\ ptr = 0)) =>
          LET t == StripComments(text)
          IN  \E pc \in 1..(Len(t) + 1) :
                /\ OffsetOf(t, pc) = cursor
                /\ IF pc = Len(t) + 1
                   THEN /\ phase' = "halted"
                        /\ UNCHANGED <<cursor, ptr, data, in_calls, in_log, out_log>>
                   ELSE IF t[pc] = "," /\ panic' = "input"
                   THEN /\ phase' = "panicked"
                        /\ in_calls' = in_calls + 1
                        /\ UNCHANGED <<ptr, data, in_log, out_log>>
                   ELSE LET b == IF t[pc] = "," THEN in_log'[Len(in_log')] ELSE 0
                            r == RefStep(t, pc, ptr, data, b)
                        IN  /\ phase' = "run"
                            /\ cursor' = OffsetOf(t, r.pc)
                            /\ ptr' = r.ptr
                            /\ \A q \in CellIndexes :
                                   Cell(data', q) =
                                       IF q = ptr THEN r.cell ELSE Cell(data, q)
                            /\ out_log' = out_log \o r.out
                            /\ in_calls' = in_calls + r.in
                            /\ Len(in_log') = Len(in_log) + r.in
                            /\ SubSeq(in_log', 1, Len(in_log)) = in_log
        /\ (phase = "compiled" /\ phase' = "run") =>
              /\ Balanced(text)
              /\ cursor' = 0 /\ ptr' = 0
              /\ \A q \in CellIndexes : Cell(data', q) = 0
              /\ in_calls' = 0 /\ in_log' = <<>> /\ out_log' = <<>>
      ]_vars

\* ",[.,]" after it read 'A', put it out and read 0: the loop-end is about
\* to leave the loop.
C18_Witness ==
    /\ text = EchoLoop
    /\ In("jnz")
    /\ in_log = <<65, 0>>
    /\ out_log = <<65>>
    /\ Cell(data, ptr) = 0

\* The loop-starts among the first n bytes of t that no loop-end among
\* them closes.
OpenStarts(t, n) ==
    {i \in 1..n : t[i] = "[" /\ \A j \in i..n : Balance(t, j) >= Balance(t, i)}

\* C19: at every point of the compilation pass the jump stack holds one
\* entry per loop-start read and not yet closed, in opening order, each the
\* offset just past that loop-start's placeholder; the entries increase
\* strictly from bottom to top, each is at least 5 and at most the length
\* of the buffer, and the 4 bytes before each are still the placeholder,
\* after the opcode of a jump-if-zero.
C19_JumpStack ==
    phase \in {"compile", "compiled"} =>
        LET n == Len(text) - Len(source)
            open == OpenStarts(text, n)
        IN  /\ Len(jump_stack) = Cardinality(open)
            /\ {jump_stack[k] : k \in 1..Len(jump_stack)} =
                   {OffsetOf(text, i) + 1 + ADDR_SIZE : i \in open}
            /\ \A k \in 1..(Len(jump_stack) - 1) : jump_stack[k] < jump_stack[k + 1]
            /\ \A k \in 1..Len(jump_stack) :
                   LET e == jump_stack[k]
                   IN  /\ e >= 5 /\ e <= Len(v)
                       /\ \A d \in 1..ADDR_SIZE : v[e - d + 1] = Garbage
                       /\ v[e - ADDR_SIZE] = to_bc("Jz")

\* "[+[" read from "[+[]": two loops are open.
C19_Witness ==
    /\ text = <<"[", "+", "[", "]">>
    /\ phase = "compile"
    /\ Len(source) = 1
    /\ jump_stack = <<5, 11>>

\* The run left the claim's conditions: the input could not hand over a
\* byte, or the pointer was moved below 0 (a build with overflow checks
\* panics there, a build without wraps the pointer).
OutsideConditions ==
    panic = "input" \/ panic = "overflow" \/ BelowZero

\* C20: the run of a compiled program without loop tokens, with an input
\* that always hands over a byte and a pointer never moved below 0, reaches
\* the halt; until then every step dispatches the opcode right after the
\* one before, so each opcode of the buffer is dispatched once, in buffer
\* order; the halt handler dispatches nothing, calls no capability and
\* leaves cursor, pointer and tape as they are, and nothing happens after
\* it.
C20_LoopFreeHalts ==
    /\ (phase = "run" /\ LoopFree(text)) ~> (phase = "halted" \/ OutsideConditions)
    /\ [][ (phase = "run" /\ LoopFree(text)) =>
             IF In("halt")
             THEN /\ cursor = Len(bc) - 1
                  /\ phase' = "halted"
                  /\ UNCHANGED <<cursor, ptr, data, in_calls, in_log, out_log>>
             ELSE \/ phase' = "run" /\ cursor' = cursor + 1
                  \/ phase' = "panicked" /\ OutsideConditions'
                  \/ BelowZero
         ]_vars
    /\ [](phase = "halted" => ~ENABLED Next)

\* ",.>+" has run to its halt: the four opcodes were dispatched in order.
C20_Witness ==
    /\ text = <<",", ".", ">", "+">>
    /\ phase = "halted"
    /\ cursor = 4
    /\ in_log = <<65>> /\ out_log = <<65>>
    /\ ptr = 1 /\ data = <<65, 1>>
====
